---- MODULE Spec2Model ----
(***************************************************************************)
(* Model of the ayon-dependencies-tool constraint merge (core.py:          *)
(* merge_tomls, _get_correct_version, get_full_toml) and of the two-phase  *)
(* resolution of custom_solver.py (solve_dependencies).                    *)
(*                                                                         *)
(* Versions are the minor versions Versions of one major release line      *)
(* ("3.8" .. "3.11" when read as interpreter versions); NextMajor is the   *)
(* first version of the next major line.  A constraint value as stored in  *)
(* a toml is a record [py, k, lo, hi, u]:                                  *)
(*   py = "str"   a Python string; k says what it spells:                  *)
(*        "ge" >=lo | "lt" <hi | "range" >=lo,<hi | "caret" ^lo |          *)
(*        "wild" lo.* | "exact" lo | "any" * | "empty" <empty> |           *)
(*        "url" a URL / VCS string u                                       *)
(*   py = "dict"  a Python dict: {version = <k,lo,hi>, markers = u}, or,   *)
(*        with k = "git", the structured pin {git = u}                     *)
(*   py = "repr"  the Python string str(<that dict>)                       *)
(*   py = "none"  no value (None / missing key)                            *)
(***************************************************************************)
EXTENDS Integers, Sequences, FiniteSets, TLC

\* Minor version of the interpreter literal "3.9.*" of merge_tomls.
Py39 == 9

\* Number of versions above Py39 in the version domain.
VerSpan == 2

\* Largest number of addon tomls of a bundle.
MaxAddons == 2

Versions == (Py39 - 1)..(Py39 + VerSpan)

NextMajor == Py39 + VerSpan + 1

Platforms == {"linux", "windows"}

(***************************************************************************)
(* Constraint values.                                                      *)
(***************************************************************************)
NoneV == [py |-> "none", k |-> "none", lo |-> 0, hi |-> 0, u |-> ""]

Txt(k, lo, hi) == [py |-> "str", k |-> k, lo |-> lo, hi |-> hi, u |-> ""]

Ge(v) == Txt("ge", v, 0)

Lt(v) == Txt("lt", 0, v)

Caret(v) == Txt("caret", v, 0)

Exact(v) == Txt("exact", v, 0)

Wild(v) == Txt("wild", v, 0)

RangeT(lo, hi) == Txt("range", lo, hi)

AnyT == Txt("any", 0, 0)

EmptyT == Txt("empty", 0, 0)

NAText == Txt("n/a", 0, 0)

Url(u) == [py |-> "str", k |-> "url", lo |-> 0, hi |-> 0, u |-> u]

DictVer(t, marker) == [py |-> "dict", k |-> t.k, lo |-> t.lo, hi |-> t.hi, u |-> marker]

DictGit(u) == [py |-> "dict", k |-> "git", lo |-> 0, hi |-> 0, u |-> u]

\* str(value): a string is itself, a dict becomes its repr string.
PyStr(v) == IF v.py = "dict" THEN [v EXCEPT !.py = "repr"] ELSE v

\* bool(value) as used by "if main_poetry.get(dependency)" / "if dep_version".
Truthy(v) == v.py # "none"

RangeKinds == {"ge", "lt", "range", "caret", "wild", "exact", "any"}

\* The value spells a version range (possibly inside {version = ...}).
IsRangeText(v) == v.py = "str" /\ v.k \in RangeKinds

IsRangeDecl(v) == v.py \in {"str", "dict"} /\ v.k \in RangeKinds

(***************************************************************************)
(* poetry.core.constraints.version: parsed constraints.                    *)
(* [t |-> "Range", min, max] is >=min,<max with 0 for an open end,         *)
(* [t |-> "Version", min |-> v], [t |-> "Empty"] and, for a string that is *)
(* no version constraint, [t |-> "ParseError"].                            *)
(***************************************************************************)
PRange(mn, mx) == [t |-> "Range", min |-> mn, max |-> mx]

PVersion(v) == [t |-> "Version", min |-> v, max |-> 0]

PEmpty == [t |-> "Empty", min |-> 0, max |-> 0]

PError == [t |-> "ParseError", min |-> 0, max |-> 0]

parse_constraint(s) ==
    IF s.py # "str" THEN PError
    ELSE CASE s.k = "ge" -> PRange(s.lo, 0)
           [] s.k = "lt" -> PRange(0, s.hi)
           [] s.k = "range" -> PRange(s.lo, s.hi)
           [] s.k = "caret" -> PRange(s.lo, NextMajor)
           [] s.k = "wild" -> PRange(s.lo, s.lo + 1)
           [] s.k = "exact" -> PVersion(s.lo)
           [] s.k = "any" -> PRange(0, 0)
           [] OTHER -> PError

\* Constraint.allows(version) for a concrete version.
AllowsVersion(c, v) ==
    CASE c.t = "Range" -> (c.min = 0 \/ v >= c.min) /\ (c.max = 0 \/ v < c.max)
      [] c.t = "Version" -> v = c.min
      [] OTHER -> FALSE

\* The versions of the domain a parsed constraint allows.
Allowed(c) == {v \in Versions : AllowsVersion(c, v)}

MaxOf(a, b) == IF a >= b THEN a ELSE b

\* The smaller upper bound, 0 standing for "no upper bound".
MinMax(a, b) == IF a = 0 THEN b ELSE IF b = 0 THEN a ELSE IF a <= b THEN a ELSE b

\* VersionRange.intersect / Version.intersect.
Intersect(a, b) ==
    CASE a.t = "Empty" \/ b.t = "Empty" -> PEmpty
      [] a.t = "Version" -> IF AllowsVersion(b, a.min) THEN a ELSE PEmpty
      [] b.t = "Version" -> IF AllowsVersion(a, b.min) THEN b ELSE PEmpty
      [] OTHER ->
           LET mn == MaxOf(a.min, b.min)
               mx == MinMax(a.max, b.max)
           IN  IF mx # 0 /\ mx <= mn THEN PEmpty ELSE PRange(mn, mx)

\* str(constraint).
StrConstraint(c) ==
    CASE c.t = "Empty" -> EmptyT
      [] c.t = "Version" -> Exact(c.min)
      [] c.t = "Range" ->
           IF c.min = 0 /\ c.max = 0 THEN AnyT
           ELSE IF c.max = 0 THEN Ge(c.min)
           ELSE IF c.min = 0 THEN Lt(c.max)
           ELSE RangeT(c.min, c.max)
      [] OTHER -> EmptyT

(***************************************************************************)
(* Errors raised out of merge_tomls.                                       *)
(***************************************************************************)
NoErr == [type |-> "none", dependency |-> "", dep |-> NoneV, main |-> NoneV,
          origin |-> ""]

Err(type, dependency, dep, main, origin) ==
    [type |-> type, dependency |-> dependency, dep |-> dep, main |-> main,
     origin |-> origin]

(***************************************************************************)
(* Python dicts with insertion order: sequences of [name, v] items with    *)
(* distinct names.                                                         *)
(***************************************************************************)
Keys(d) == {d[i].name : i \in 1..Len(d)}

HasKey(d, n) == \E i \in 1..Len(d) : d[i].name = n

\* d.get(n): the value, or the none value.
DictGet(d, n, none) ==
    IF HasKey(d, n) THEN d[CHOOSE i \in 1..Len(d) : d[i].name = n].v ELSE none

\* d[n] = v: in place for an existing key, appended for a new one.
DictSet(d, n, v) ==
    IF HasKey(d, n)
    THEN [i \in 1..Len(d) |-> IF d[i].name = n THEN [name |-> n, v |-> v] ELSE d[i]]
    ELSE Append(d, [name |-> n, v |-> v])

\* d.pop(n, None).
DictPop(d, n) == SelectSeq(d, LAMBDA it : it.name # n)

(***************************************************************************)
(* _is_url_constraint and _get_correct_version.                            *)
(***************************************************************************)
\* "http" in str(version) or "git" in str(version): a URL / VCS string, or
\* the repr string of a structured pin.
_is_url_constraint(version) ==
    version.k = "url" \/ (version.py \in {"repr", "dict"} /\ version.k = "git")

\* value["version"] of a dict {version = ..., markers = ...}.
VersionOf(d) == Txt(d.k, d.lo, d.hi)

\* What _get_correct_version returns: exc is the exception it raises
\* ("none" when it returns); s is the returned string (a pin) and c the
\* returned constraint object; isstr says which of the two was returned.
Ret(exc, isstr, s, c) == [exc |-> exc, isstr |-> isstr, s |-> s, c |-> c]

\* GcvResolved with the final intersection left out: the addon's range alone.
GcvResolvedAddonOnly(main_version, dep_version) ==
    IF Truthy(dep_version) /\ _is_url_constraint(dep_version)
    THEN Ret("none", TRUE, dep_version, PEmpty)
    ELSE IF Truthy(main_version) /\ _is_url_constraint(main_version)
    THEN Ret("none", TRUE, main_version, PEmpty)
    ELSE IF parse_constraint(dep_version).t = "ParseError"
            \/ parse_constraint(main_version).t = "ParseError"
    THEN Ret("ParseConstraintError", FALSE, NoneV, PEmpty)
    ELSE Ret("none", FALSE, NoneV, parse_constraint(dep_version))

\* _get_correct_version once both versions are strings.
GcvResolved(main_version, dep_version) ==
    IF Truthy(dep_version) /\ _is_url_constraint(dep_version)
    THEN Ret("none", TRUE, dep_version, PEmpty)
    ELSE IF Truthy(main_version) /\ _is_url_constraint(main_version)
    THEN Ret("none", TRUE, main_version, PEmpty)
    ELSE IF ~Truthy(main_version)
    THEN IF parse_constraint(dep_version).t = "ParseError"
         THEN Ret("ParseConstraintError", FALSE, NoneV, PEmpty)
         ELSE Ret("none", FALSE, NoneV, parse_constraint(dep_version))
    ELSE IF ~Truthy(dep_version)
    THEN IF parse_constraint(main_version).t = "ParseError"
         THEN Ret("ParseConstraintError", FALSE, NoneV, PEmpty)
         ELSE Ret("none", FALSE, NoneV, parse_constraint(main_version))
    ELSE IF parse_constraint(dep_version).t = "ParseError"
            \/ parse_constraint(main_version).t = "ParseError"
    THEN Ret("ParseConstraintError", FALSE, NoneV, PEmpty)
    ELSE Ret("none", FALSE, NoneV,
             Intersect(parse_constraint(dep_version), parse_constraint(main_version)))

_get_correct_version(main_version, dep_version) ==
    IF (dep_version.py = "dict" /\ dep_version.k = "git")
       \/ (main_version.py = "dict" /\ main_version.k = "git")
    THEN Ret("KeyError", FALSE, NoneV, PEmpty)
    ELSE GcvResolved(
             IF main_version.py = "dict" THEN VersionOf(main_version) ELSE main_version,
             IF dep_version.py = "dict" THEN VersionOf(dep_version) ELSE dep_version)

\* str(resolved_vers) of what _get_correct_version returned.
StrRet(r) == IF r.isstr THEN PyStr(r.s) ELSE StrConstraint(r.c)

(***************************************************************************)
(* merge_tomls, sections "dependencies" and "dev-dependencies".            *)
(* A toml is [poetry, deps, dev, ayon, runtime]: poetry / ayon say whether *)
(* the tables tool.poetry / ayon exist.                                    *)
(***************************************************************************)
\* The literal written for the key "python" (core.py: "3.9.*").
PythonLiteral == Wild(Py39)

\* "if resolved_vers == "<empty>": raise ValueError", else
\* "main_poetry[dependency] = resolved_vers".
MergeItemStore(main_poetry, dependency, dep_version, main_version, addon_name, resolved_vers) ==
    IF resolved_vers = EmptyT
    THEN [sec |-> main_poetry,
          err |-> Err("ValueError", dependency, dep_version, main_version, addon_name)]
    ELSE [sec |-> DictSet(main_poetry, dependency, resolved_vers), err |-> NoErr]

\* The iteration from "resolved_vers = str(resolved_vers)" on; r is what
\* _get_correct_version returned or raised.
MergeItemResolved(main_poetry, dependency, dep_version, main_version, addon_name, r) ==
    IF r.exc # "none"
    THEN [sec |-> main_poetry, err |-> Err(r.exc, "", NoneV, NoneV, "")]
    ELSE MergeItemStore(main_poetry, dependency, dep_version, main_version, addon_name,
                        IF dependency = "python" THEN PythonLiteral ELSE StrRet(r))

\* "if main_poetry.get(dependency): ... else: ..."; found is
\* main_poetry.get(dependency).
MergeItemFound(main_poetry, dependency, dep_version, addon_name, found) ==
    IF Truthy(found)
    THEN MergeItemResolved(main_poetry, dependency, dep_version, found, addon_name,
                           _get_correct_version(found, dep_version))
    ELSE MergeItemResolved(main_poetry, dependency, dep_version, NAText, addon_name,
                           Ret("none", TRUE, dep_version, PEmpty))

\* One iteration of "for dependency, dep_version in addon_poetry.items()":
\* the section after it, and the error it raised.
MergeItem(main_poetry, dependency, dep_version, addon_name) ==
    MergeItemFound(main_poetry, dependency, dep_version, addon_name,
                   DictGet(main_poetry, dependency, NoneV))

RECURSIVE MergeItems(_, _, _, _)
\* The loop goes on after an iteration (step) unless it raised.
MergeItemsNext(step, addon_poetry, i, addon_name) ==
    IF step.err # NoErr THEN step
    ELSE MergeItems(step.sec, addon_poetry, i + 1, addon_name)

\* The loop over addon_poetry.items() from item i on; it stops at the first
\* error, with the items merged so far written to main_poetry.
MergeItems(main_poetry, addon_poetry, i, addon_name) ==
    IF i > Len(addon_poetry) THEN [sec |-> main_poetry, err |-> NoErr]
    ELSE MergeItemsNext(MergeItem(main_poetry, addon_poetry[i].name, addon_poetry[i].v,
                                  addon_name),
                        addon_poetry, i, addon_name)

\* "main_toml[...].get(key) or {}" is the section's own dict when it is
\* non-empty and a fresh dict otherwise; a fresh dict is stored only by the
\* assignment after the loop, which an error skips.
SectionResult(main_sec, res) ==
    IF res.err # NoErr /\ main_sec = <<>> THEN [sec |-> main_sec, err |-> res.err] ELSE res

\* One pass of "for key in dependency_keyes".
MergeSection(main_sec, addon_sec, addon_name) ==
    SectionResult(main_sec, MergeItems(main_sec, addon_sec, 1, addon_name))

(***************************************************************************)
(* merge_tomls, section ayon.runtimeDependencies.  An entry (dep_info) is  *)
(* [py, version, plat]: py = "dict" for {version = .., <platform> =        *)
(* {version = ..}} with the none value for a missing key, py = "str" for a *)
(* plain string (kept in version).                                         *)
(***************************************************************************)
NoPlat == [p \in Platforms |-> NoneV]

NoneInfo == [py |-> "none", version |-> NoneV, plat |-> NoPlat]

InfoVersion(t) == [py |-> "dict", version |-> t, plat |-> NoPlat]

InfoPlat(p, t) ==
    [py |-> "dict", version |-> NoneV, plat |-> [q \in Platforms |-> IF q = p THEN t ELSE NoneV]]

InfoStr(t) == [py |-> "str", version |-> t, plat |-> NoPlat]

InfoTruthy(info) == info.py # "none"

\* constraint.allows(result_range) as merge_tomls calls it: with a Version
\* it is membership; with a range where a Version is expected an unbounded
\* constraint answers True without looking at it, and any other constraint
\* answers True or raises AttributeError, depending on the poetry-core
\* build (range_arg_ok).  "true" | "false" | "raise".
AllowsResult(c, r, range_arg_ok) ==
    IF r.t = "Version" THEN (IF AllowsVersion(c, r.min) THEN "true" ELSE "false")
    ELSE IF c.t = "Range" /\ c.min = 0 /\ c.max = 0 THEN "true"
    ELSE IF range_arg_ok THEN "true" ELSE "raise"

\* "if str(result_range) != "<empty>" and ...allows(result_range)": a is
\* what allows answered.
RuntimeAllows(dep_version, a) ==
    CASE a = "true" -> [exc |-> "none", dep |-> dep_version]
      [] a = "false" -> [exc |-> "conflict", dep |-> dep_version]
      [] OTHER -> [exc |-> "AttributeError", dep |-> NoneV]

\* The check of result_range: r is what _get_correct_version returned or
\* raised, c is parse_constraint(dep_version).
RuntimeResolved(dep_version, r, c, range_arg_ok) ==
    IF r.exc # "none" THEN [exc |-> r.exc, dep |-> NoneV]
    ELSE IF StrRet(r) = EmptyT THEN [exc |-> "conflict", dep |-> dep_version]
    ELSE IF c.t = "ParseError" THEN [exc |-> "ParseConstraintError", dep |-> NoneV]
    ELSE IF r.isstr
    THEN (IF c.t = "Range" /\ c.min = 0 /\ c.max = 0
          THEN [exc |-> "none", dep |-> dep_version]
          ELSE [exc |-> "TypeError", dep |-> NoneV])
    ELSE RuntimeAllows(dep_version, AllowsResult(c, r.c, range_arg_ok))

\* The reads of the two "version" keys, then the check.
RuntimeVersions(main_info, dep_info, main_version, dep_version, range_arg_ok) ==
    IF dep_info.py = "str" THEN [exc |-> "AttributeError", dep |-> NoneV]
    ELSE IF ~Truthy(dep_version) THEN [exc |-> "KeyError", dep |-> NoneV]
    ELSE IF main_info.py = "str" THEN [exc |-> "TypeError", dep |-> NoneV]
    ELSE IF ~Truthy(main_version) THEN [exc |-> "KeyError", dep |-> NoneV]
    ELSE RuntimeResolved(dep_version, _get_correct_version(main_version, dep_version),
                         parse_constraint(dep_version), range_arg_ok)

\* The body of "if main_poetry.get(dependency):" for one runtime entry:
\* the exception type it raises, "conflict" for its ValueError, or "none";
\* dep is the addon version it compared.
RuntimeCheck(main_info, dep_info, platform_name, range_arg_ok) ==
    IF Truthy(dep_info.plat[platform_name])
    THEN RuntimeVersions(main_info, dep_info, main_info.plat[platform_name],
                         dep_info.plat[platform_name], range_arg_ok)
    ELSE RuntimeVersions(main_info, dep_info, main_info.version, dep_info.version,
                         range_arg_ok)

\* "dep_info = main_poetry[dependency]" and the store, or the ValueError.
MergeRuntimeChecked(main_poetry, dependency, main_info, addon_name, chk) ==
    IF chk.exc = "none"
    THEN [sec |-> DictSet(main_poetry, dependency, main_info), err |-> NoErr]
    ELSE IF chk.exc = "conflict"
    THEN [sec |-> main_poetry,
          err |-> Err("ValueError", dependency, chk.dep, NoneV, addon_name)]
    ELSE [sec |-> main_poetry, err |-> Err(chk.exc, "", NoneV, NoneV, "")]

\* main_info is main_poetry.get(dependency).
MergeRuntimeFound(main_poetry, dependency, dep_info, addon_name, platform_name, range_arg_ok, main_info) ==
    IF ~InfoTruthy(main_info)
    THEN [sec |-> DictSet(main_poetry, dependency, dep_info), err |-> NoErr]
    ELSE MergeRuntimeChecked(main_poetry, dependency, main_info, addon_name,
                             RuntimeCheck(main_info, dep_info, platform_name, range_arg_ok))

\* One iteration of "for dependency, dep_info in addon_poetry.items()".
MergeRuntimeItem(main_poetry, dependency, dep_info, addon_name, platform_name, range_arg_ok) ==
    MergeRuntimeFound(main_poetry, dependency, dep_info, addon_name, platform_name,
                      range_arg_ok, DictGet(main_poetry, dependency, NoneInfo))

RECURSIVE MergeRuntime(_, _, _, _, _, _)
\* The runtime loop goes on after an iteration (step) unless it raised.
MergeRuntimeNext(step, addon_poetry, i, addon_name, platform_name, range_arg_ok) ==
    IF step.err # NoErr THEN step
    ELSE MergeRuntime(step.sec, addon_poetry, i + 1, addon_name, platform_name,
                      range_arg_ok)

\* The runtime loop from item i on; main_poetry is main_toml's own dict,
\* so the entries written before an error stay written.
MergeRuntime(main_poetry, addon_poetry, i, addon_name, platform_name, range_arg_ok) ==
    IF i > Len(addon_poetry) THEN [sec |-> main_poetry, err |-> NoErr]
    ELSE MergeRuntimeNext(
             MergeRuntimeItem(main_poetry, addon_poetry[i].name, addon_poetry[i].v,
                              addon_name, platform_name, range_arg_ok),
             addon_poetry, i, addon_name, platform_name, range_arg_ok)

(***************************************************************************)
(* merge_tomls and get_full_toml.  The result is [toml, err]: main_toml as *)
(* the call left it (it is updated in place) and the error raised.         *)
(***************************************************************************)
Toml(deps, dev, runtime) ==
    [poetry |-> TRUE, deps |-> deps, dev |-> dev, ayon |-> TRUE, runtime |-> runtime]

KeyErr == Err("KeyError", "", NoneV, NoneV, "")

\* merge_tomls after the runtime loop (d3).
MergedRuntime(main_toml, d3) ==
    [toml |-> [main_toml EXCEPT !.runtime = d3.sec], err |-> d3.err]

\* merge_tomls from "# handle runtime dependencies" on.
MergeRuntimeSection(main_toml, addon_toml, addon_name, platform_name, range_arg_ok) ==
    IF ~addon_toml.ayon \/ addon_toml.runtime = <<>>
    THEN [toml |-> main_toml, err |-> NoErr]
    ELSE IF ~main_toml.ayon THEN [toml |-> main_toml, err |-> KeyErr]
    ELSE MergedRuntime(main_toml,
                       MergeRuntime(main_toml.runtime, addon_toml.runtime, 1, addon_name,
                                    platform_name, range_arg_ok))

\* merge_tomls after the pass for "dev-dependencies" (d2).
MergedDev(main_toml, addon_toml, addon_name, platform_name, range_arg_ok, d2) ==
    IF d2.err # NoErr
    THEN [toml |-> [main_toml EXCEPT !.dev = d2.sec], err |-> d2.err]
    ELSE MergeRuntimeSection([main_toml EXCEPT !.dev = d2.sec], addon_toml, addon_name,
                             platform_name, range_arg_ok)

\* merge_tomls after the pass for "dependencies" (d1).
MergedMain(main_toml, addon_toml, addon_name, platform_name, range_arg_ok, d1) ==
    IF d1.err # NoErr
    THEN [toml |-> [main_toml EXCEPT !.deps = d1.sec], err |-> d1.err]
    ELSE MergedDev([main_toml EXCEPT !.deps = d1.sec], addon_toml, addon_name,
                   platform_name, range_arg_ok,
                   MergeSection(main_toml.dev, addon_toml.dev, addon_name))

merge_tomls(main_toml, addon_toml, addon_name, platform_name, range_arg_ok) ==
    IF ~main_toml.poetry \/ ~addon_toml.poetry
    THEN [toml |-> main_toml, err |-> KeyErr]
    ELSE MergedMain(main_toml, addon_toml, addon_name, platform_name, range_arg_ok,
                    MergeSection(main_toml.deps, addon_toml.deps, addon_name))

RECURSIVE get_full_toml(_, _, _, _, _)
\* The loop of get_full_toml over addon_tomls (a sequence of [name, toml])
\* from item i on.
get_full_toml(base_toml_data, addon_tomls, i, platform_name, range_arg_ok) ==
    IF i > Len(addon_tomls) THEN [toml |-> base_toml_data, err |-> NoErr]
    ELSE LET m == merge_tomls(base_toml_data, addon_tomls[i].toml,
                              addon_tomls[i].name, platform_name, range_arg_ok)
         IN  IF m.err # NoErr THEN m
             ELSE get_full_toml(m.toml, addon_tomls, i + 1, platform_name, range_arg_ok)

(***************************************************************************)
(* The inputs: what the server holds for a bundle.                         *)
(***************************************************************************)
Item(name, v) == [name |-> name, v |-> v]

\* The version range strings the manifests are written with.
RangeTexts == {Ge(Py39), Ge(Py39 + 1), Lt(Py39 + 1), Exact(Py39)}

UrlPins == {Url("https://host/six.whl")}

StructuredPin == DictGit("https://host/six.git")

MarkedVersions == {DictVer(Ge(Py39 + 1), "win32")}

MainItems ==
    {Item("six", v) : v \in RangeTexts \cup UrlPins \cup MarkedVersions \cup {StructuredPin}}
    \cup {Item("python", Ge(Py39 + 1)), Item("Six", Ge(Py39 + 1))}

DevItems == {Item("six", v) : v \in {Ge(Py39 + 1), Lt(Py39 + 1)}}

RuntimeItems ==
    {Item("six", InfoVersion(v)) : v \in {Lt(Py39 + 1), Exact(Py39)}}
    \cup {Item("six", InfoPlat(p, Lt(Py39 + 1))) : p \in Platforms}
    \cup {Item("six", InfoStr(Exact(Py39 + 1)))}

\* A toml without the table tool.poetry.
NoPoetryToml ==
    [poetry |-> FALSE, deps |-> <<>>, dev |-> <<>>, ayon |-> FALSE, runtime |-> <<>>]

\* Addon tomls: one declared dependency, or two in different sections.
AddonTomlSet ==
    {Toml(<<it>>, <<>>, <<>>) : it \in MainItems}
    \cup {Toml(<<>>, <<it>>, <<>>) : it \in DevItems}
    \cup {Toml(<<>>, <<>>, <<it>>) : it \in RuntimeItems}
    \cup {Toml(<<Item("six", Ge(Py39))>>, <<>>, <<Item("six", InfoVersion(Lt(Py39)))>>),
          NoPoetryToml}

\* An installer as the server returns it: pythonModules and
\* runtimePythonModules, one of the two filled.
Installers ==
    {[pythonModules |-> pm, runtimePythonModules |-> <<>>] :
        pm \in {<<>>, <<Item("python", Ge(Py39))>>}
               \cup {<<Item("six", v)>> :
                        v \in {Ge(Py39), Lt(Py39 + 1), Url("https://host/six.whl")}
                              \cup MarkedVersions}}
    \cup {[pythonModules |-> <<>>, runtimePythonModules |-> <<Item("six", inf)>>] :
             inf \in {InfoVersion(Ge(Py39)), InfoPlat("linux", Ge(Py39))}}

\* The interpreter versions a package may be built for; merge_tomls takes
\* no such parameter.
TargetPythons == {Py39, Py39 + 1}

AddonName(i) == IF i = 1 THEN "addon1_1.0.0" ELSE IF i = 2 THEN "addon2_1.0.0" ELSE "addonN_1.0.0"

\* The bundle's addon tomls, in the order get_full_toml walks them.
AddonTomlSeqs ==
    UNION {[1..n -> AddonTomlSet] : n \in 0..MaxAddons}

Named(tomls) == [i \in 1..Len(tomls) |-> [name |-> AddonName(i), toml |-> tomls[i]]]

\* get_installer_toml: copies of the installer's two module tables.
get_installer_toml(inst) == Toml(inst.pythonModules, <<>>, inst.runtimePythonModules)

(***************************************************************************)
(* create_package, up to the merged toml.                                  *)
(***************************************************************************)
VARIABLES
    pc,               \* where create_package is
    platform_name,    \* platform.system().lower() of the host
    range_arg_ok,     \* the poetry-core build answers allows(<range>)
    target_python,    \* the interpreter version the package is built for
    installer,        \* the bundle's installer on the server
    addon_tomls,      \* the bundle's addon tomls
    full_toml_data,   \* base_toml_data of get_full_toml
    idx,              \* addon tomls merged so far
    error,            \* the exception that ended create_package
    resolved_all_versions,   \* solve_dependencies: the first resolution
    resolved_base_versions,  \* solve_dependencies: the second resolution
    skip_upload,             \* create_package's argument
    installer_version,       \* bundle.installer_version, "none" for None
    dependency_packages,     \* the dependency packages the server holds
    bundle_updates,          \* the package names con.update_bundle was called with
    resolvers,               \* the CustomResolver instances of the process
    tmpdir,                  \* the processing directory exists
    tmp_files,               \* the files in the processing directory
    remove_queue,            \* _remove_tmpdir: remove_queue
    failed,                  \* _remove_tmpdir: failed
    attempts                 \* os.remove calls made so far, per file

vars == <<pc, platform_name, range_arg_ok, target_python, installer, addon_tomls, full_toml_data,
          idx, error, resolved_all_versions, resolved_base_versions,
          skip_upload, installer_version, dependency_packages, bundle_updates,
          resolvers, tmpdir, tmp_files, remove_queue, failed, attempts>>

\* What create_package holds on the server side and was called with.
build_vars == <<skip_upload, installer_version, dependency_packages, bundle_updates>>

\* What _remove_tmpdir works on.
tmp_vars == <<tmpdir, tmp_files, remove_queue, failed, attempts>>

\* The variables the merge and the solver leave alone.
rest_vars == <<build_vars, resolvers, tmp_vars>>

\* The file names of the processing directory, in os.walk order.
MaxFiles == 2

Files == 1..MaxFiles

\* No package on the server, no update of the bundle yet.
BuildIdle ==
    /\ skip_upload = FALSE
    /\ installer_version = "1.0.0"
    /\ dependency_packages = {}
    /\ bundle_updates = <<>>

\* No resolver was created yet.
OpsIdle == resolvers = <<>>

\* No processing directory was made yet.
TmpIdle ==
    /\ tmpdir = FALSE
    /\ tmp_files = {}
    /\ remove_queue = <<>>
    /\ failed = <<>>
    /\ attempts = [f \in Files |-> 0]

\* What solve_dependencies writes.
solve_vars == <<resolved_all_versions, resolved_base_versions>>

\* What the environment and the server hold.
env_vars == <<platform_name, range_arg_ok, target_python, installer, addon_tomls>>

EmptyToml == Toml(<<>>, <<>>, <<>>)

Init ==
    /\ pc = "start"
    /\ platform_name \in Platforms
    /\ range_arg_ok \in BOOLEAN
    /\ target_python \in TargetPythons
    /\ installer \in Installers
    /\ addon_tomls \in {Named(s) : s \in AddonTomlSeqs}
    /\ full_toml_data = EmptyToml
    /\ idx = 0
    /\ error = NoErr
    /\ resolved_all_versions = <<>>
    /\ resolved_base_versions = <<>>
    /\ BuildIdle /\ OpsIdle /\ TmpIdle

\* installer_toml_data = get_installer_toml(installer)
GetInstallerToml ==
    /\ pc = "start"
    /\ pc' = "merge"
    /\ full_toml_data' = get_installer_toml(installer)
    /\ UNCHANGED <<env_vars, idx, error, solve_vars, rest_vars>>

\* base_toml_data = merge_tomls(...), or the exception that ends the run;
\* m is what merge_tomls returned.
MergeResult(m) ==
    /\ full_toml_data' = m.toml
    /\ error' = m.err
    /\ pc' = IF m.err = NoErr THEN "merge" ELSE "failed"
    /\ idx' = IF m.err = NoErr THEN idx + 1 ELSE idx

\* One iteration of get_full_toml's loop: merge_tomls of the next addon.
MergeAddon ==
    /\ pc = "merge"
    /\ idx < Len(addon_tomls)
    /\ MergeResult(merge_tomls(full_toml_data, addon_tomls[idx + 1].toml,
                               addon_tomls[idx + 1].name, platform_name, range_arg_ok))
    /\ UNCHANGED <<env_vars, solve_vars, rest_vars>>

\* get_full_toml returns the merged toml.
MergeDone ==
    /\ pc = "merge"
    /\ idx = Len(addon_tomls)
    /\ pc' = "merged"
    /\ UNCHANGED <<env_vars, full_toml_data, idx, error, solve_vars, rest_vars>>

Next == GetInstallerToml \/ MergeAddon \/ MergeDone

Spec == Init /\ [][Next]_vars

(***************************************************************************)
(* custom_solver.py: solve_dependencies and the resolver it calls.         *)
(* A resolution is a dict {package name: version}, version 0 for None.     *)
(***************************************************************************)
\* Largest number of entries of a dependency table given to the resolver.
MaxDeps == 2

\* The name poetry reports a package under (package.name): lower case.
Canon(name) == IF name = "Six" THEN "six" ELSE name

\* The package index: requests requires six, in any version; every
\* package exists in every version of Versions.
Requires(p) == IF p = "requests" THEN {"six"} ELSE {}

\* The order of installer.ops: a package comes after what it requires.
OpsOrder == <<"six", "requests">>

\* package.source_type in ("directory", "file", "url", "git")
IsDirectOrigin(v) == (v.py = "str" /\ v.k = "url") \/ (v.py = "dict" /\ v.k = "git")

\* A runtime entry put into tool.poetry.dependencies by dict.update.
InfoToDep(info) ==
    IF info.py = "str" THEN info.version
    ELSE IF info.py = "dict" /\ info.version.py # "none" THEN DictVer(info.version, "")
    ELSE NAText

\* all_main_dependencies.update(runtime_dependencies)
RECURSIVE DictUpdate(_, _, _)
DictUpdate(d, other, i) ==
    IF i > Len(other) THEN d
    ELSE DictUpdate(DictSet(d, other[i].name, InfoToDep(other[i].v)), other, i + 1)

\* The entries of the project that name package p ("python" names the
\* interpreter, not a package).
DeclaredFor(deps, p) ==
    {i \in 1..Len(deps) : deps[i].name # "python" /\ Canon(deps[i].name) = p}

\* The packages of the resolution: the declared ones and what they require.
Packages(deps) ==
    LET roots == {Canon(deps[i].name) : i \in {j \in 1..Len(deps) : deps[j].name # "python"}}
    IN  roots \cup UNION {Requires(p) : p \in roots}

\* The versions of p every entry that names it allows.
Candidates(deps, p) ==
    {v \in Versions : \A i \in DeclaredFor(deps, p) :
        AllowsVersion(parse_constraint(VersionOf(deps[i].v)), v)}

\* The solver finds a version of p: its entries are all direct-origin pins
\* of one origin, or all version ranges with a common version.
Resolvable(deps, p) ==
    LET decl == DeclaredFor(deps, p)
    IN  \/ /\ decl # {}
           /\ \A i \in decl : IsDirectOrigin(deps[i].v)
           /\ \A i, j \in decl : deps[i].v = deps[j].v
        \/ /\ \A i \in decl : deps[i].v.py \in {"str", "dict"} /\ deps[i].v.k \in RangeKinds
           /\ Candidates(deps, p) # {}

\* The solver takes the latest version allowed; a direct origin has none.
ResolvedVersion(deps, p) ==
    IF \E i \in DeclaredFor(deps, p) : IsDirectOrigin(deps[i].v) THEN 0
    ELSE CHOOSE v \in Candidates(deps, p) : \A w \in Candidates(deps, p) : w <= v

\* _solve_dependencies: output[package.name] = version for op in ops.
_solve_dependencies(toml_data) ==
    LET deps == toml_data.deps \o toml_data.dev
        names == SelectSeq(OpsOrder, LAMBDA p : p \in Packages(deps))
        ok == \A p \in Packages(deps) : Resolvable(deps, p)
    IN  [ok |-> ok,
         output |-> IF ok
                    THEN [i \in 1..Len(names) |->
                             [name |-> names[i], v |-> ResolvedVersion(deps, names[i])]]
                    ELSE <<>>]

\* resolved.get(package_name): None (0) for a missing key.
ResolvedGet(resolved, name) ==
    IF \E i \in 1..Len(resolved) : resolved[i].name = name
    THEN (CHOOSE it \in {resolved[i] : i \in 1..Len(resolved)} : it.name = name).v
    ELSE 0

\* The toml value of a resolved version: package.version.text, or None.
VersionText(v) == IF v = 0 THEN NoneV ELSE Exact(v)

\* for package_name in tuple(main_dependencies.keys()): pin what resolved.
PinMain(main_dependencies, resolved) ==
    [i \in 1..Len(main_dependencies) |->
        IF ResolvedGet(resolved, main_dependencies[i].name) = 0
        THEN main_dependencies[i]
        ELSE Item(main_dependencies[i].name,
                  VersionText(ResolvedGet(resolved, main_dependencies[i].name)))]

\* for package_name, package_version in resolved_base_versions.items(): ...
RECURSIVE ApplyBase(_, _, _)
ApplyBase(toml_data, resolved, i) ==
    IF i > Len(resolved) THEN toml_data
    ELSE LET package_name == resolved[i].name
             main == IF HasKey(toml_data.deps, package_name) THEN toml_data.deps
                     ELSE Append(toml_data.deps,
                                 Item(package_name, VersionText(resolved[i].v)))
         IN  ApplyBase([toml_data EXCEPT !.deps = main,
                                         !.runtime = DictPop(toml_data.runtime, package_name)],
                       resolved, i + 1)

\* The tables of dependencies solve_dependencies is called with.
SolveNames == {"six", "Six", "requests"}

SolveValues == {Ge(Py39), Lt(Py39 + 2), Url("https://host/six.whl")}

SolveInfos == {InfoStr(Exact(Py39)), InfoVersion(Lt(Py39 + 1)), InfoVersion(Ge(Py39 + 1))}

DistinctNames(s) == \A i, j \in 1..Len(s) : i # j => s[i].name # s[j].name

SolveMains ==
    {s \in UNION {[1..n -> {Item(nm, v) : nm \in SolveNames, v \in SolveValues}] :
                      n \in 0..MaxDeps} : DistinctNames(s)}

SolveRuntimes ==
    {s \in UNION {[1..n -> {Item(nm, inf) : nm \in {"six", "Six"}, inf \in SolveInfos}] :
                      n \in 0..MaxDeps} : DistinctNames(s)}

SolverErr == Err("SolverProblemError", "", NoneV, NoneV, "")

\* The installers and the addon tomls whose merge solve_dependencies is
\* given: the installer ships the main dependencies, and the runtime
\* dependencies come from the installer or from one addon.
SolveInstallers ==
    {[pythonModules |-> m, runtimePythonModules |-> r] : m \in SolveMains, r \in SolveRuntimes}

SolveAddons == {<<>>} \cup {Named(<<Toml(<<>>, <<>>, r)>>) : r \in SolveRuntimes \ {<<>>}}

\* solve_dependencies is entered with the full toml get_full_toml returned.
SolveEntry(full) ==
    /\ full.err = NoErr
    /\ full_toml_data = full.toml

InitSolve ==
    /\ pc = "solve"
    /\ platform_name = "linux"
    /\ range_arg_ok = TRUE
    /\ target_python = Py39
    /\ installer \in SolveInstallers
    /\ addon_tomls \in SolveAddons
    /\ installer.runtimePythonModules = <<>> \/ addon_tomls = <<>>
    /\ SolveEntry(get_full_toml(get_installer_toml(installer), addon_tomls, 1,
                                platform_name, range_arg_ok))
    /\ idx = Len(addon_tomls)
    /\ error = NoErr
    /\ resolved_all_versions = <<>>
    /\ resolved_base_versions = <<>>
    /\ BuildIdle /\ OpsIdle /\ TmpIdle

\* if not runtime_dependencies: return
SolveReturn ==
    /\ pc = "solve"
    /\ full_toml_data.runtime = <<>>
    /\ pc' = "solved"
    /\ UNCHANGED <<env_vars, full_toml_data, idx, error, solve_vars, rest_vars>>

\* The resolution of main and runtime dependencies together, and the
\* pinning of the main dependencies to it.
SolveAll ==
    /\ pc = "solve"
    /\ full_toml_data.runtime # <<>>
    /\ LET all_dependencies ==
               [full_toml_data EXCEPT
                   !.deps = DictUpdate(full_toml_data.deps, full_toml_data.runtime, 1)]
           r == _solve_dependencies(all_dependencies)
       IN  IF r.ok
           THEN /\ resolved_all_versions' = r.output
                /\ full_toml_data' =
                       [full_toml_data EXCEPT !.deps = PinMain(full_toml_data.deps, r.output)]
                /\ pc' = "solve_base"
                /\ error' = error
           ELSE /\ pc' = "failed"
                /\ error' = SolverErr
                /\ UNCHANGED <<full_toml_data, resolved_all_versions>>
    /\ UNCHANGED <<env_vars, idx, resolved_base_versions, rest_vars>>

\* The resolution of the pinned main dependencies alone, and the removal
\* of what it resolved from the runtime dependencies.
SolveBase ==
    /\ pc = "solve_base"
    /\ LET r == _solve_dependencies(full_toml_data)
       IN  IF r.ok
           THEN /\ resolved_base_versions' = r.output
                /\ full_toml_data' = ApplyBase(full_toml_data, r.output, 1)
                /\ pc' = "solved"
                /\ error' = error
           ELSE /\ pc' = "failed"
                /\ error' = SolverErr
                /\ UNCHANGED <<full_toml_data, resolved_base_versions>>
    /\ UNCHANGED <<env_vars, idx, resolved_all_versions, rest_vars>>

NextSolve == SolveReturn \/ SolveAll \/ SolveBase

SpecSolve == InitSolve /\ [][NextSolve]_vars

(***************************************************************************)
(* create_package as a whole: the calls to the server around the merge.    *)
(* A dependency package on the server is [filename, pythonModules, file],  *)
(* file telling whether its zip was uploaded.                              *)
(***************************************************************************)
\* The package a former build left on the server, and the one this build
\* makes (prepare_zip_venv names the zip after the time of the build).
OldFilename == "ayon_old.zip"

NewFilename == "ayon_new.zip"

\* dict.items()
Items(d) == {d[i] : i \in 1..Len(d)}

Package(filename, pythonModules, file) ==
    [filename |-> filename, pythonModules |-> pythonModules, file |-> file]

\* The installers and addon tomls of the bundles that are built.
BuildInstallers ==
    {[pythonModules |-> <<>>, runtimePythonModules |-> <<>>],
     [pythonModules |-> <<Item("six", Ge(Py39))>>, runtimePythonModules |-> <<>>],
     [pythonModules |-> <<>>, runtimePythonModules |-> <<Item("six", InfoVersion(Ge(Py39)))>>]}

BuildAddonTomls ==
    {Toml(<<Item("six", Ge(Py39 + 1))>>, <<>>, <<>>),
     Toml(<<Item("six", Lt(Py39 + 1))>>, <<>>, <<>>),
     Toml(<<Item("six", Ge(Py39))>>, <<>>, <<Item("six", InfoVersion(Lt(Py39)))>>),
     NoPoetryToml}

BuildAddonSeqs == UNION {[1..n -> BuildAddonTomls] : n \in 0..MaxAddons}

\* What con.get_dependency_packages() returns when the build starts.
ServerPackages ==
    {{}} \cup {{Package(OldFilename, <<Item("six", v)>>, TRUE)} : v \in {Ge(Py39), Ge(Py39 + 1)}}

\* get_applicable_package: the packages whose pythonModules equal the
\* merged main dependencies as dicts.
ApplicablePackages(new_toml, packages) ==
    {package \in packages : Items(package.pythonModules) = Items(new_toml.deps)}

\* remove_existing_from_venv: pip uninstall of every name the installer
\* ships, whatever version the venv holds; what is left is what pip freeze
\* lists for the package.
remove_existing_from_venv(modules, inst) ==
    SelectSeq(modules, LAMBDA it : it.name \notin Keys(inst.pythonModules))

\* The upload is made whatever skip_upload says.
AfterPackageDataAlways(skip) == "create"

\* The step after prepare_package_data: if not skip_upload: upload_to_server.
AfterPackageData(skip) == IF skip THEN "cleanup" ELSE "create"

\* create_package is called for a bundle of the server.
InitBuild ==
    /\ pc = "bundle"
    /\ platform_name \in Platforms
    /\ range_arg_ok = TRUE
    /\ target_python = Py39
    /\ installer \in BuildInstallers
    /\ addon_tomls \in {Named(t) : t \in BuildAddonSeqs}
    /\ full_toml_data = EmptyToml
    /\ idx = 0
    /\ error = NoErr
    /\ resolved_all_versions = <<>>
    /\ resolved_base_versions = <<>>
    /\ skip_upload \in BOOLEAN
    /\ installer_version \in {"none", "1.0.0"}
    /\ dependency_packages \in ServerPackages
    /\ bundle_updates = <<>>
    /\ OpsIdle /\ TmpIdle

\* A call that raised ends create_package.
Raise(type) ==
    /\ pc' = "failed"
    /\ error' = Err(type, "", NoneV, NoneV, "")

\* if bundle.installer_version is None: return None
NoInstallerVersion ==
    /\ pc = "bundle"
    /\ installer_version = "none"
    /\ pc' = "returned"
    /\ UNCHANGED <<env_vars, full_toml_data, idx, error, solve_vars, rest_vars>>

\* find_installer_by_name: the installer, or ValueError when the server
\* lists none of that version.
FindInstaller ==
    /\ pc = "bundle"
    /\ installer_version # "none"
    /\ \/ pc' = "start" /\ error' = error
       \/ Raise("ValueError")
    /\ UNCHANGED <<env_vars, full_toml_data, idx, solve_vars, rest_vars>>

\* applicable_package found: update_bundle_with_package and return.
ApplicablePackage ==
    /\ pc = "merged"
    /\ \E package \in ApplicablePackages(full_toml_data, dependency_packages) :
          \/ /\ bundle_updates' = Append(bundle_updates, package.filename)
             /\ pc' = "returned"
             /\ error' = error
          \/ /\ Raise("ServerError")
             /\ UNCHANGED bundle_updates
    /\ UNCHANGED <<env_vars, full_toml_data, idx, solve_vars, skip_upload, installer_version,
                   dependency_packages, resolvers, tmp_vars>>

\* No applicable package: tempfile.mkdtemp and create_addons_venv, which
\* raises RuntimeError when poetry install fails.
CreateAddonsVenv ==
    /\ pc = "merged"
    /\ ApplicablePackages(full_toml_data, dependency_packages) = {}
    /\ tmpdir' = TRUE
    /\ tmp_files' = Files
    /\ \/ pc' = "venv" /\ error' = error
       \/ Raise("RuntimeError")
    /\ UNCHANGED <<env_vars, full_toml_data, idx, solve_vars, build_vars, resolvers,
                   remove_queue, failed, attempts>>

\* remove_existing_from_venv, prepare_zip_venv, prepare_package_data and
\* stored_package_to_dir: pip freeze failing raises RuntimeError.
PreparePackageData ==
    /\ pc = "venv"
    /\ \/ pc' = AfterPackageData(skip_upload) /\ error' = error
       \/ Raise("RuntimeError")
    /\ UNCHANGED <<env_vars, full_toml_data, idx, solve_vars, rest_vars>>

\* upload_to_server: con.create_dependency_package(**package_data)
CreateDependencyPackage ==
    /\ pc = "create"
    /\ \/ /\ dependency_packages' =
                 dependency_packages
                     \cup {Package(NewFilename,
                                   remove_existing_from_venv(full_toml_data.deps, installer),
                                   FALSE)}
          /\ pc' = "upload"
          /\ error' = error
       \/ /\ Raise("ServerError")
          /\ UNCHANGED dependency_packages
    /\ UNCHANGED <<env_vars, full_toml_data, idx, solve_vars, skip_upload, installer_version,
                   bundle_updates, resolvers, tmp_vars>>

\* upload_to_server: con.upload_dependency_package(...)
UploadDependencyPackage ==
    /\ pc = "upload"
    /\ \/ /\ dependency_packages' =
                 {IF package.filename = NewFilename THEN [package EXCEPT !.file = TRUE]
                  ELSE package : package \in dependency_packages}
          /\ pc' = "update"
          /\ error' = error
       \/ /\ Raise("ServerError")
          /\ UNCHANGED dependency_packages
    /\ UNCHANGED <<env_vars, full_toml_data, idx, solve_vars, skip_upload, installer_version,
                   bundle_updates, resolvers, tmp_vars>>

\* update_bundle_with_package(con, bundle, package_data)
UpdateBundle ==
    /\ pc = "update"
    /\ \/ /\ bundle_updates' = Append(bundle_updates, NewFilename)
          /\ pc' = "cleanup"
          /\ error' = error
       \/ /\ Raise("ServerError")
          /\ UNCHANGED bundle_updates
    /\ UNCHANGED <<env_vars, full_toml_data, idx, solve_vars, skip_upload, installer_version,
                   dependency_packages, resolvers, tmp_vars>>

(***************************************************************************)
(* _remove_tmpdir: the removal of the processing directory, file by file.  *)
(***************************************************************************)
\* for filepath in filepaths: remove_queue.append((filepath, 0)), in the
\* order the set filepaths iterates in.
QueueOrders(files) ==
    {q \in [1..Cardinality(files) -> [filepath : files, attempt : {0}]] :
        \A i, j \in 1..Cardinality(files) : q[i].filepath = q[j].filepath => i = j}

\* if attempt > 3
GivesUpLate(attempt) == attempt > 4

GivesUp(attempt) == attempt > 3

\* failed = []; return if the directory is missing; fill remove_queue.
RemoveTmpdirStart ==
    /\ pc = "cleanup"
    /\ failed' = <<>>
    /\ IF tmpdir
       THEN /\ remove_queue' \in QueueOrders(tmp_files)
            /\ pc' = "remove"
       ELSE /\ remove_queue' = remove_queue
            /\ pc' = "returned"
    /\ UNCHANGED <<env_vars, full_toml_data, idx, error, solve_vars, build_vars, resolvers,
                   tmpdir, tmp_files, attempts>>

\* What the except branch does with the file whose removal failed.
RemoveFailed(filepath, attempt, gives_up) ==
    /\ failed' = IF gives_up THEN Append(failed, filepath) ELSE failed
    /\ remove_queue' = IF gives_up THEN Tail(remove_queue)
                       ELSE Append(Tail(remove_queue),
                                   [filepath |-> filepath, attempt |-> attempt + 1])
    /\ UNCHANGED tmp_files

\* One iteration of while remove_queue: os.remove succeeds or raises OSError.
RemoveFile ==
    /\ pc = "remove"
    /\ remove_queue # <<>>
    /\ attempts' = [attempts EXCEPT ![Head(remove_queue).filepath] = @ + 1]
    /\ \/ /\ tmp_files' = tmp_files \ {Head(remove_queue).filepath}
          /\ remove_queue' = Tail(remove_queue)
          /\ UNCHANGED failed
       \/ RemoveFailed(Head(remove_queue).filepath, Head(remove_queue).attempt,
                       GivesUp(Head(remove_queue).attempt))
    /\ UNCHANGED <<pc, env_vars, full_toml_data, idx, error, solve_vars, build_vars, resolvers,
                   tmpdir>>

\* if not failed: shutil.rmtree(tmpdir), which may raise; return failed.
RemoveTree ==
    /\ pc = "remove"
    /\ remove_queue = <<>>
    /\ IF failed = <<>>
       THEN \/ /\ tmpdir' = FALSE
               /\ tmp_files' = {}
               /\ pc' = "returned"
               /\ error' = error
            \/ /\ Raise("OSError")
               /\ UNCHANGED <<tmpdir, tmp_files>>
       ELSE /\ pc' = "returned"
            /\ UNCHANGED <<error, tmpdir, tmp_files>>
    /\ UNCHANGED <<env_vars, full_toml_data, idx, solve_vars, build_vars, resolvers,
                   remove_queue, failed, attempts>>

NextBuild ==
    \/ NoInstallerVersion \/ FindInstaller
    \/ GetInstallerToml \/ MergeAddon \/ MergeDone
    \/ ApplicablePackage \/ CreateAddonsVenv \/ PreparePackageData
    \/ CreateDependencyPackage \/ UploadDependencyPackage \/ UpdateBundle
    \/ RemoveTmpdirStart \/ RemoveFile \/ RemoveTree

SpecBuild == InitBuild /\ [][NextBuild]_vars

\* _remove_tmpdir is called on a processing directory.
InitTmp ==
    /\ pc = "cleanup"
    /\ platform_name = "linux"
    /\ range_arg_ok = TRUE
    /\ target_python = Py39
    /\ installer = [pythonModules |-> <<>>, runtimePythonModules |-> <<>>]
    /\ addon_tomls = <<>>
    /\ full_toml_data = EmptyToml
    /\ idx = 0
    /\ error = NoErr
    /\ resolved_all_versions = <<>>
    /\ resolved_base_versions = <<>>
    /\ BuildIdle /\ OpsIdle
    /\ tmpdir \in BOOLEAN
    /\ tmp_files \in (IF tmpdir THEN SUBSET Files ELSE {{}})
    /\ remove_queue = <<>>
    /\ failed = <<>>
    /\ attempts = [f \in Files |-> 0]

NextTmp == RemoveTmpdirStart \/ RemoveFile \/ RemoveTree

\* The function runs on one thread: it takes its next step as long as it
\* has one.
SpecTmp == InitTmp /\ [][NextTmp]_vars /\ WF_vars(NextTmp)

(***************************************************************************)
(* custom_solver.py: the CustomResolver instances one process makes, one   *)
(* per call of _solve_dependencies.  An instance is [outcome, computed,    *)
(* has_ops, ops]: how its run ended, the operations the run computed,      *)
(* whether the run set the instance attribute ops, and that attribute.     *)
(***************************************************************************)
\* Largest number of resolver runs of one process.
MaxRuns == 3

\* class CustomResolver: ops = []
ClassOps == <<>>

\* The operation lists a run computes, as the package names operated on.
OpsSet == {<<>>, <<"six">>, <<"six", "requests">>}

\* installer.ops: the instance attribute, or the class attribute when the
\* instance has none.
installer_ops(resolver) == IF resolver.has_ops THEN resolver.ops ELSE ClassOps

InitOps ==
    /\ pc = "resolve"
    /\ platform_name = "linux"
    /\ range_arg_ok = TRUE
    /\ target_python = Py39
    /\ installer = [pythonModules |-> <<>>, runtimePythonModules |-> <<>>]
    /\ addon_tomls = <<>>
    /\ full_toml_data = EmptyToml
    /\ idx = 0
    /\ error = NoErr
    /\ resolved_all_versions = <<>>
    /\ resolved_base_versions = <<>>
    /\ BuildIdle /\ OpsIdle /\ TmpIdle

\* A CustomResolver instance after installer.run().
Resolver(outcome, computed, has_ops, ops) ==
    [outcome |-> outcome, computed |-> computed, has_ops |-> has_ops, ops |-> ops]

\* installer = CustomResolver(...); installer.run()
Ran ==
    /\ pc = "resolve"
    /\ Len(resolvers) < MaxRuns
    /\ UNCHANGED <<pc, env_vars, full_toml_data, idx, error, solve_vars, build_vars, tmp_vars>>

\* _do_install runs to its end: self.ops = ops
RunToEnd ==
    /\ Ran
    /\ \E ops \in OpsSet : resolvers' = Append(resolvers, Resolver("done", ops, TRUE, ops))

\* if not self.executor.enabled: write the lock file and return 0
RunLockOnly ==
    /\ Ran
    /\ \E ops \in OpsSet : resolvers' = Append(resolvers, Resolver("early", ops, FALSE, <<>>))

\* _do_install raises: an unknown extra before any operations are
\* computed, or the solver after them.
RunRaises ==
    /\ Ran
    /\ \E ops \in OpsSet : resolvers' = Append(resolvers, Resolver("raised", ops, FALSE, <<>>))

NextOps == RunToEnd \/ RunLockOnly \/ RunRaises

SpecOps == InitOps /\ [][NextOps]_vars

(***************************************************************************)
(* Properties.                                                             *)
(***************************************************************************)
\* The base handed to the first merge_tomls call.
Base0 == get_installer_toml(installer)

\* The addon toml the next MergeAddon step merges.
NextAddon == addon_tomls[idx + 1].toml

\* A MergeAddon step is about to be taken.
AtMerge == pc = "merge" /\ idx < Len(addon_tomls)

\* get_full_toml has ended: it returned, or a merge raised.
MergeEnded == pc \in {"merged", "failed"}

\* A runtime entry written as a dict whose versions are range strings.
IsRangeInfo(info) ==
    /\ info.py = "dict"
    /\ info.version = NoneV \/ IsRangeText(info.version)
    /\ \A p \in Platforms : info.plat[p] = NoneV \/ IsRangeText(info.plat[p])

\* Every constraint of the toml is a version range string.
PureRangeToml(t) ==
    /\ t.poetry
    /\ \A it \in Items(t.deps) \cup Items(t.dev) : IsRangeText(it.v)
    /\ \A it \in Items(t.runtime) : IsRangeInfo(it.v)

\* The same constraint for every dependency name of the three sections.
SameConstraints(t1, t2) ==
    /\ Items(t1.deps) = Items(t2.deps)
    /\ Items(t1.dev) = Items(t2.dev)
    /\ Items(t1.runtime) = Items(t2.runtime)

Swapped == <<addon_tomls[2], addon_tomls[1]>>

\* C1: merging two pure-range addon manifests A then B into the base and
\* merging B then A either both fail with a conflict or both succeed with
\* the same constraint for every dependency name of the main, development
\* and runtime sections.
C1_MergeOrderIndependent ==
    (/\ MergeEnded
     /\ Len(addon_tomls) = 2
     /\ PureRangeToml(Base0)
     /\ \A i \in 1..2 : PureRangeToml(addon_tomls[i].toml))
    => LET other == get_full_toml(Base0, Swapped, 1, platform_name, range_arg_ok)
       IN  \/ error # NoErr /\ other.err # NoErr
           \/ /\ error = NoErr
              /\ other.err = NoErr
              /\ SameConstraints(full_toml_data, other.toml)

Sec(t, key) == IF key = "dependencies" THEN t.deps ELSE t.dev

dependency_keyes == {"dependencies", "dev-dependencies"}

\* The range a declaration spells: the string, or a dict's version.
RangeOf(v) == IF v.py = "dict" THEN VersionOf(v) ELSE v

AllowedBy(v) == Allowed(parse_constraint(RangeOf(v)))

\* Two range declarations with no version in common.
Disjoint(a, b) ==
    Intersect(parse_constraint(RangeOf(a)), parse_constraint(RangeOf(b))) = PEmpty

\* The (name, addon constraint, base constraint) triples of the next merge
\* whose two ranges have no version in common.
Conflicts ==
    {[name |-> it.name, dep |-> it.v, main |-> DictGet(Sec(full_toml_data, key), it.name, NoneV)] :
        <<key, it>> \in {<<k, i>> \in dependency_keyes \X (Items(NextAddon.deps) \cup Items(NextAddon.dev)) :
            /\ i \in Items(Sec(NextAddon, k))
            /\ IsRangeDecl(i.v)
            /\ IsRangeDecl(DictGet(Sec(full_toml_data, k), i.name, NoneV))
            /\ Disjoint(i.v, DictGet(Sec(full_toml_data, k), i.name, NoneV))}}
    \cup
    {[name |-> it.name, dep |-> it.v.version,
      main |-> DictGet(full_toml_data.runtime, it.name, NoneInfo).version] :
        it \in {i \in Items(NextAddon.runtime) :
            /\ i.v.py = "dict" /\ IsRangeText(i.v.version)
            /\ DictGet(full_toml_data.runtime, i.name, NoneInfo).py = "dict"
            /\ IsRangeText(DictGet(full_toml_data.runtime, i.name, NoneInfo).version)
            /\ Disjoint(i.v.version, DictGet(full_toml_data.runtime, i.name, NoneInfo).version)}}

\* C2: when base and addition both declare a range for a name and the two
\* ranges have no version in common, merge_tomls raises a conflict error
\* that reports the name, both constraints and the addon; it never returns
\* a merged toml.
C2_ConflictRaised ==
    [][(AtMerge /\ NextAddon.poetry /\ Conflicts # {})
       => /\ pc' = "failed"
          /\ error'.type = "ValueError"
          /\ \E c \in Conflicts :
                /\ error'.dependency = c.name
                /\ error'.dep = c.dep
                /\ error'.main = c.main
                /\ error'.origin = addon_tomls[idx + 1].name]_vars

\* The names of a section of the next addon that base and addon both
\* declare with overlapping ranges.
Overlapping(key) ==
    {it \in Items(Sec(NextAddon, key)) :
        /\ IsRangeDecl(it.v)
        /\ IsRangeDecl(DictGet(Sec(full_toml_data, key), it.name, NoneV))
        /\ ~Disjoint(it.v, DictGet(Sec(full_toml_data, key), it.name, NoneV))}

\* The merged constraint of it.name allows exactly the versions both allow.
IsIntersection(key, it) ==
    Allowed(parse_constraint(DictGet(Sec(full_toml_data', key), it.name, NoneV)))
        = AllowedBy(it.v) \cap AllowedBy(DictGet(Sec(full_toml_data, key), it.name, NoneV))

IsPin(v) == (v.py = "str" /\ v.k = "url") \/ (v.py = "dict" /\ v.k = "git")

\* C4: when the addition declares a direct-origin pin for a name, in any
\* recognized form, the merged constraint of that name is the addition's
\* pin (as written, or as its string) whatever the base holds for the name.
C4_PinPrecedence ==
    [][(/\ AtMerge /\ NextAddon.poetry
        /\ Len(NextAddon.deps) >= 1
        /\ IsPin(NextAddon.deps[1].v)
        /\ (full_toml_data.deps # <<>> \/ error' = NoErr))
       => DictGet(full_toml_data'.deps, NextAddon.deps[1].name, NoneV)
             \in {NextAddon.deps[1].v, PyStr(NextAddon.deps[1].v)}]_vars

\* C5: a name the addition declares and the base does not holds, after the
\* merge, the addition's constraint unchanged in value and form (stated for
\* the names other than the interpreter key python).
C5_AdoptUnchanged ==
    [][(AtMerge /\ error' = NoErr)
       => /\ \A key \in dependency_keyes : \A it \in Items(Sec(NextAddon, key)) :
                (it.name # "python" /\ ~HasKey(Sec(full_toml_data, key), it.name))
                => DictGet(Sec(full_toml_data', key), it.name, NoneV) = it.v
          /\ \A it \in Items(NextAddon.runtime) :
                ~HasKey(full_toml_data.runtime, it.name)
                => DictGet(full_toml_data'.runtime, it.name, NoneInfo) = it.v]_vars

\* Two constraint values are the same constraint in the same form: equal,
\* or two range strings spelling the same range.
ValueEquiv(a, b) ==
    \/ a = b
    \/ IsRangeText(a) /\ IsRangeText(b) /\ parse_constraint(a) = parse_constraint(b)

SectionEquiv(d1, d2) ==
    /\ Keys(d1) = Keys(d2)
    /\ \A n \in Keys(d1) : ValueEquiv(DictGet(d1, n, NoneV), DictGet(d2, n, NoneV))

\* C6: merging a dependency set into itself succeeds and returns a set
\* equal to the original, for every name and constraint form (stated for
\* sets without the interpreter key python, and for a poetry-core build
\* whose allows() answers for a range).
C6_Idempotent ==
    [][(/\ AtMerge /\ NextAddon.poetry /\ range_arg_ok
        /\ ~HasKey(NextAddon.deps, "python")
        /\ SameConstraints(NextAddon, full_toml_data))
       => /\ error' = NoErr
          /\ SectionEquiv(full_toml_data'.deps, full_toml_data.deps)
          /\ SectionEquiv(full_toml_data'.dev, full_toml_data.dev)
          /\ Items(full_toml_data'.runtime) = Items(full_toml_data.runtime)]_vars

\* The keys of a runtime entry: the plain version and one per platform.
InfoKeys == {"version"} \cup Platforms

InfoAt(info, key) == IF key = "version" THEN info.version ELSE info.plat[key]

\* The next addon declares one runtime entry and nothing else, for a name
\* the base declares too, both written as dicts of range strings under
\* platform keys.
RuntimeBoth ==
    /\ AtMerge /\ NextAddon.poetry
    /\ NextAddon.deps = <<>> /\ NextAddon.dev = <<>>
    /\ Len(NextAddon.runtime) = 1
    /\ IsRangeInfo(NextAddon.runtime[1].v)
    /\ ~Truthy(NextAddon.runtime[1].v.version)
    /\ HasKey(full_toml_data.runtime, NextAddon.runtime[1].name)
    /\ IsRangeInfo(DictGet(full_toml_data.runtime, NextAddon.runtime[1].name, NoneInfo))
    /\ ~Truthy(DictGet(full_toml_data.runtime, NextAddon.runtime[1].name, NoneInfo).version)

\* C7: a runtime dependency declared by base and addition is merged per
\* platform key with the range rules of the ordinary merge; a side without
\* an entry for a platform is unconstrained there: the merge does not fail
\* and the other side's constraint for that platform is the result.
C7_PerPlatformMerge ==
    [][RuntimeBoth
       => LET dep_info == NextAddon.runtime[1].v
              name == NextAddon.runtime[1].name
              main_info == DictGet(full_toml_data.runtime, name, NoneInfo)
              merged == DictGet(full_toml_data'.runtime, name, NoneInfo)
              both(k) == Truthy(InfoAt(dep_info, k)) /\ Truthy(InfoAt(main_info, k))
          IN  (\A k \in InfoKeys : both(k) => ~Disjoint(InfoAt(dep_info, k), InfoAt(main_info, k)))
              => /\ error' = NoErr
                 /\ \A p \in Platforms :
                       /\ (Truthy(dep_info.plat[p]) /\ ~Truthy(main_info.plat[p]))
                          => merged.plat[p] = dep_info.plat[p]
                       /\ (~Truthy(dep_info.plat[p]) /\ Truthy(main_info.plat[p]))
                          => merged.plat[p] = main_info.plat[p]
                       /\ both(p) => AllowedBy(merged.plat[p])
                                       = AllowedBy(dep_info.plat[p]) \cap AllowedBy(main_info.plat[p])]_vars

\* Some addon merged so far declares the interpreter key.
PythonDeclared == \E i \in 1..idx : HasKey(addon_tomls[i].toml.deps, "python")

\* C8: the merged constraint of the key python is derived from the target
\* interpreter version supplied from outside: of the target versions it
\* allows the one supplied and no other, so that two targets give two
\* merged values.
C8_PythonFromTarget ==
    (pc = "merged" /\ PythonDeclared)
    => \A t \in TargetPythons :
          AllowsVersion(parse_constraint(DictGet(full_toml_data.deps, "python", NoneV)), t)
             <=> t = target_python

\* The manifests merged: the installer's and the addons'.
Manifests == {Base0} \cup {addon_tomls[i].toml : i \in 1..Len(addon_tomls)}

\* C9: after a successful merge the merged constraint of a name allows no
\* version that a manifest declaring the name forbids, so that the version
\* resolved for it satisfies every declaring manifest.
C9_MergedSound ==
    pc = "merged"
    => \A m \in Manifests :
          /\ \A key \in dependency_keyes : \A it \in Items(Sec(m, key)) :
                (IsRangeDecl(it.v) /\ IsRangeText(DictGet(Sec(full_toml_data, key), it.name, NoneV)))
                => AllowedBy(DictGet(Sec(full_toml_data, key), it.name, NoneV)) \subseteq AllowedBy(it.v)
          /\ \A it \in Items(m.runtime) : \A k \in InfoKeys :
                LET merged == DictGet(full_toml_data.runtime, it.name, NoneInfo)
                IN  (/\ IsRangeInfo(it.v) /\ IsRangeInfo(merged)
                     /\ Truthy(InfoAt(it.v, k)) /\ Truthy(InfoAt(merged, k)))
                    => AllowedBy(InfoAt(merged, k)) \subseteq AllowedBy(InfoAt(it.v, k))

\* The runtime dependencies solve_dependencies leaves: the delta.
RuntimeDelta == {Canon(k) : k \in Keys(full_toml_data.runtime)}

\* A package both resolutions resolved to the same concrete version.
SameInBoth(d) ==
    /\ ResolvedGet(resolved_all_versions, d) # 0
    /\ ResolvedGet(resolved_all_versions, d) = ResolvedGet(resolved_base_versions, d)

\* C10: once both resolutions are done, a package that the full resolution
\* and the base-only resolution resolve to the identical concrete version
\* is absent from the computed delta.
C10_DeltaMinimal ==
    pc = "solved" => \A d \in Keys(resolved_all_versions) : SameInBoth(d) => d \notin RuntimeDelta

\* A package the base-only resolution lacks or holds in another version.
DiffersFromBase(d) ==
    ResolvedGet(resolved_all_versions, d) # ResolvedGet(resolved_base_versions, d)

\* Every key of the dependency tables is spelled as the resolver reports it.
CanonicalKeys ==
    \A k \in Keys(full_toml_data.deps) \cup Keys(full_toml_data.runtime) : Canon(k) = k

\* C11: once both resolutions are done over canonically spelled tables,
\* every package of the full resolution that the base-only resolution lacks
\* or resolves to another concrete version is present in the computed delta.
C11_DeltaComplete ==
    (pc = "solved" /\ CanonicalKeys)
        => \A d \in Keys(resolved_all_versions) : DiffersFromBase(d) => d \in RuntimeDelta

\* The runtime dependencies solve_dependencies was entered with.
RuntimeDeclared ==
    Keys(installer.runtimePythonModules)
        \cup UNION {Keys(addon_tomls[i].toml.runtime) : i \in 1..Len(addon_tomls)}

\* An addon toml of the bundle declares the package.
AdditionRequires(k) ==
    \E i \in 1..Len(addon_tomls) :
        Canon(k) \in {Canon(n) : n \in Keys(addon_tomls[i].toml.deps)
                                        \cup Keys(addon_tomls[i].toml.runtime)}

\* The base-only resolution resolved the package.
BaseResolves(k) == Canon(k) \in Keys(resolved_base_versions)

\* C12: once both resolutions are done over canonically spelled tables, a
\* runtime dependency is gone from the runtime set exactly when the
\* base-only resolution resolved its name and no addon requires it.
C12_RuntimeRemoval ==
    (pc = "solved" /\ CanonicalKeys)
        => \A k \in RuntimeDeclared :
              (k \notin Keys(full_toml_data.runtime))
                  <=> (BaseResolves(k) /\ ~AdditionRequires(k))

\* No two entries of the table name the same package.
OneEntryPerPackage(d) ==
    \A i, j \in 1..Len(d) : Canon(d[i].name) = Canon(d[j].name) => i = j

OneEntryPerPackageIn(t) ==
    OneEntryPerPackage(t.deps) /\ OneEntryPerPackage(t.dev) /\ OneEntryPerPackage(t.runtime)

\* C13: when every manifest of the bundle names each package once, the
\* merged toml holds no two entries whose names normalize to one package.
C13_CanonicalNames ==
    (pc = "merged" /\ \A m \in Manifests : OneEntryPerPackageIn(m))
        => OneEntryPerPackageIn(full_toml_data)

\* The build ended at an addon toml without the tool.poetry section.
ManifestFailure ==
    /\ pc = "failed"
    /\ idx < Len(addon_tomls)
    /\ ~NextAddon.poetry

\* C15: when the build fails at an addon toml that lacks tool.poetry, the
\* base toml is still the installer's: nothing of any addon toml has been
\* merged into it.
C15_ManifestErrorFirst ==
    ManifestFailure => (error.type = "KeyError" /\ full_toml_data = Base0)

\* The server holds nothing of this build: no record of the new package
\* and no update of the bundle.
NothingOnServer ==
    /\ \A package \in dependency_packages : package.filename # NewFilename
    /\ bundle_updates = <<>>

\* C14: a step of create_package that ends the build with an error leaves
\* the base toml as it was before the step, and the server then holds no
\* package record, no uploaded file and no bundle update of this build.
C14_NoPartialEffect ==
    [][pc' = "failed" => (full_toml_data' = full_toml_data /\ NothingOnServer')]_vars

\* The package of that name is on the server and is one the bundle may be
\* pointed at: a former package with the merged main dependencies, or the
\* new package with its file uploaded.
HeldByServer(filename) ==
    \E package \in dependency_packages :
        /\ package.filename = filename
        /\ \/ /\ filename = OldFilename
              /\ Items(package.pythonModules) = Items(full_toml_data.deps)
           \/ /\ filename = NewFilename
              /\ package.file

\* C17: the bundle is updated at most once and only with a package the
\* server holds; without an installer or with skip_upload no new package
\* is on the server and the bundle is not pointed at one.
C17_BundleUpdate ==
    /\ Len(bundle_updates) <= 1
    /\ \A i \in 1..Len(bundle_updates) : HeldByServer(bundle_updates[i])
    /\ (installer_version = "none" \/ skip_upload)
          => \A package \in dependency_packages : package.filename # NewFilename
    /\ (installer_version = "none" \/ skip_upload)
          => \A i \in 1..Len(bundle_updates) : bundle_updates[i] # NewFilename

\* A build that made, uploaded and assigned a new package has returned.
C17_Witness ==
    /\ pc = "returned"
    /\ bundle_updates = <<NewFilename>>
    /\ \E package \in dependency_packages : package.filename = NewFilename /\ package.file

\* _remove_tmpdir has ended, by return or by the exception of rmtree.
TmpEnded == pc \in {"returned", "failed"}

FailedFiles == {failed[i] : i \in 1..Len(failed)}

\* No file is tried more than 5 times; at the end the list of failed files
\* holds, once each, the files that are still there, each tried 5 times.
TmpSafe ==
    /\ \A f \in Files : attempts[f] <= 5
    /\ TmpEnded =>
          /\ FailedFiles = tmp_files
          /\ Len(failed) = Cardinality(FailedFiles)
          /\ \A f \in FailedFiles : attempts[f] = 5

\* C18: _remove_tmpdir ends for every pattern of failing removals; each
\* file is tried at most 5 times, the returned list holds exactly the files
\* whose every removal failed, and the directory tree is removed only when
\* that list is empty.
C18_RemoveTmpdir ==
    /\ []TmpSafe
    /\ [][(tmpdir /\ ~tmpdir') => failed = <<>>]_vars
    /\ <>TmpEnded

\* One file was given up after its fifth failure, another was removed on a
\* later attempt, and the directory was left in place.
C18_Witness ==
    /\ pc = "returned"
    /\ tmpdir
    /\ Len(failed) = 1
    /\ \E f \in Files : f \notin tmp_files /\ attempts[f] > 1

\* C16: what is read as ops from a resolver instance after its run is the
\* list of operations that run computed.
C16_OpsPerRun ==
    \A i \in 1..Len(resolvers) : installer_ops(resolvers[i]) = resolvers[i].computed

====
